---- MODULE Spec2Model ----
(***************************************************************************)
(* Model of the notebook Python/33_Segmentation_Thresholding_Edge_Detection *)
(* (SimpleITK-Notebooks): the ROI cells (mask construction, histogram      *)
(* slice, sub-image crop) and the least-squares sphere fit of cell 18.     *)
(*                                                                         *)
(* Numbers are exact: coordinates are integers, the solution of the        *)
(* least-squares system is a vector of rationals kept as integer           *)
(* numerators over one positive denominator, in lowest terms.  The radius  *)
(* is what the cell prints: the square root formatted with two decimals,   *)
(* kept as an integer number of hundredths.                                *)
(***************************************************************************)
EXTENDS Integers, Sequences, FiniteSets, TLC

(***************************************************************************)
(* Bounds of the model.                                                    *)
(***************************************************************************)
\* voxels per axis of the image volume (indices 0 .. Size-1)
Size == 2
\* longest point list handed to a single fit
MaxPoints == 5
\* longest point list in the runs with several calls or two invocations
MaxSeqPoints == 3

(***************************************************************************)
(* Values standing for Python objects.                                     *)
(***************************************************************************)
\* a notebook-level name that no cell has assigned yet
Unset == "unset"

VARIABLES
    \* ---- ROI cells (cells 7, 9, 16) ----
    cell,                  \* position in the ROI cells
    roi,                   \* <<<<min_x,max_x>>, <<min_y,max_y>>, <<min_z,max_z>>>>
    mask,                  \* voxel <<x,y,z>> -> pixel value
    x, y, z,               \* loop variables of the mask loop
    ix, iy, iz,            \* next value of each range iterator
    roi_intensity_values,  \* voxels whose intensities the histogram gets
    sub_image,             \* voxels cropped into sub_image
    \* ---- sphere fit (cell 18) ----
    pc,                    \* invocation -> position in cell 18
    physical_points,       \* invocation -> its point list
    it,                    \* invocation -> position of its enumerate() iterator
    out,                   \* invocation -> what it printed or raised
    A, b,                  \* notebook-level system matrix and right-hand side
    row, point,            \* notebook-level loop variables
    res,                   \* notebook-level solution of the solve
    memo                   \* history: one earlier completed call (input, output)

roiVars == <<cell, roi, mask, x, y, z, ix, iy, iz, roi_intensity_values, sub_image>>
fitVars == <<pc, physical_points, it, out, A, b, row, point, res, memo>>
vars == <<roiVars, fitVars>>

(***************************************************************************)
(* ROI cells.                                                              *)
(***************************************************************************)
Voxels == (0..(Size-1)) \X (0..(Size-1)) \X (0..(Size-1))

\* cell 7: mask_value = 255
mask_value == 255

\* the (min, max) pair of one axis: two indices inside the image; min > max
\* is let in and gives an empty range
AxisPairs == (0..(Size-1)) \X (0..(Size-1))
ROIs == AxisPairs \X AxisPairs \X AxisPairs

\* sitk.Image(size, sitkUInt8): every pixel 0
ZeroImage == [v \in Voxels |-> 0]

\* variant: range(roi[k][0], roi[k][1]), the +1 left out
RangeStopExclusive(hi) == hi
\* stop value of range(roi[k][0], roi[k][1]+1): the first value not yielded
RangeStop(hi) == hi + 1

\* Python slice lo:hi of an axis with n entries, for 0 <= lo, hi
Slice(lo, hi, n) == {i \in 0..(n-1) : lo <= i /\ i < hi}

InitROI ==
    /\ cell = "cell7"
    /\ roi \in ROIs
    /\ mask = Unset
    /\ x = Unset /\ y = Unset /\ z = Unset
    /\ ix = Unset /\ iy = Unset /\ iz = Unset
    /\ roi_intensity_values = Unset
    /\ sub_image = Unset

\* the ROI cells are not run
IdleROI ==
    /\ cell = "off"
    /\ roi = Unset
    /\ mask = Unset
    /\ x = Unset /\ y = Unset /\ z = Unset
    /\ ix = Unset /\ iy = Unset /\ iz = Unset
    /\ roi_intensity_values = Unset
    /\ sub_image = Unset

\* cell 7, lines 104-106: the mask image is created and range() over x starts
MaskCreate ==
    /\ cell = "cell7"
    /\ mask' = ZeroImage
    /\ ix' = roi[1][1]
    /\ cell' = "for_x"
    /\ UNCHANGED <<roi, x, y, z, iy, iz, roi_intensity_values, sub_image>>
    /\ UNCHANGED fitVars

\* line 106: for x in range(roi[0][0], roi[0][1]+1)
ForX ==
    /\ cell = "for_x"
    /\ IF ix < RangeStop(roi[1][2])
       THEN /\ x' = ix
            /\ ix' = ix + 1
            /\ iy' = roi[2][1]
            /\ cell' = "for_y"
       ELSE /\ cell' = "cell9"
            /\ UNCHANGED <<x, ix, iy>>
    /\ UNCHANGED <<roi, mask, y, z, iz, roi_intensity_values, sub_image>>
    /\ UNCHANGED fitVars

\* line 107: for y in range(roi[1][0], roi[1][1]+1)
ForY ==
    /\ cell = "for_y"
    /\ IF iy < RangeStop(roi[2][2])
       THEN /\ y' = iy
            /\ iy' = iy + 1
            /\ iz' = roi[3][1]
            /\ cell' = "for_z"
       ELSE /\ cell' = "for_x"
            /\ UNCHANGED <<y, iy, iz>>
    /\ UNCHANGED <<roi, mask, x, z, ix, roi_intensity_values, sub_image>>
    /\ UNCHANGED fitVars

\* line 108: for z in range(roi[2][0], roi[2][1]+1)
ForZ ==
    /\ cell = "for_z"
    /\ IF iz < RangeStop(roi[3][2])
       THEN /\ z' = iz
            /\ iz' = iz + 1
            /\ cell' = "body"
       ELSE /\ cell' = "for_y"
            /\ UNCHANGED <<z, iz>>
    /\ UNCHANGED <<roi, mask, x, y, ix, iy, roi_intensity_values, sub_image>>
    /\ UNCHANGED fitVars

\* line 109: mask[x,y,z] = mask_value
MaskSet ==
    /\ cell = "body"
    /\ mask' = [mask EXCEPT ![<<x, y, z>>] = mask_value]
    /\ cell' = "for_z"
    /\ UNCHANGED <<roi, x, y, z, ix, iy, iz, roi_intensity_values, sub_image>>
    /\ UNCHANGED fitVars

\* cell 9, lines 129-132: the numpy array is indexed [z, y, x]
Histogram ==
    /\ cell = "cell9"
    /\ roi_intensity_values' =
         {v \in Voxels : /\ v[3] \in Slice(roi[3][1], roi[3][2], Size)
                         /\ v[2] \in Slice(roi[2][1], roi[2][2], Size)
                         /\ v[1] \in Slice(roi[1][1], roi[1][2], Size)}
    /\ cell' = "cell16"
    /\ UNCHANGED <<roi, mask, x, y, z, ix, iy, iz, sub_image>>
    /\ UNCHANGED fitVars

\* cell 16, lines 231-233: the SimpleITK image is sliced [x, y, z]
Crop ==
    /\ cell = "cell16"
    /\ sub_image' =
         {v \in Voxels : /\ v[1] \in Slice(roi[1][1], roi[1][2], Size)
                         /\ v[2] \in Slice(roi[2][1], roi[2][2], Size)
                         /\ v[3] \in Slice(roi[3][1], roi[3][2], Size)}
    /\ cell' = "end"
    /\ UNCHANGED <<roi, mask, x, y, z, ix, iy, iz, roi_intensity_values>>
    /\ UNCHANGED fitVars

NextROI ==
    \/ MaskCreate
    \/ ForX
    \/ ForY
    \/ ForZ
    \/ MaskSet
    \/ Histogram
    \/ Crop

(***************************************************************************)
(* Exact arithmetic for the sphere fit.                                    *)
(***************************************************************************)
Abs(n) == IF n < 0 THEN -n ELSE n

RECURSIVE GCD(_, _)
GCD(m, n) == IF n = 0 THEN Abs(m) ELSE GCD(n, m % Abs(n))

\* the rational n/d (d > 0) in lowest terms
Rat(n, d) ==
    LET g == GCD(n, d)
    IN  [num |-> n \div g, den |-> d \div g]

\* the vector nums/d (d > 0) in lowest terms
RatVec(nums, d) ==
    LET g == GCD(GCD(GCD(nums[1], nums[2]), GCD(nums[3], nums[4])), d)
    IN  [num |-> <<nums[1] \div g, nums[2] \div g, nums[3] \div g, nums[4] \div g>>,
         den |-> d \div g]

Idx == 1..4

\* the subsets of the column indices
IdxSubsets ==
    <<{}, {1}, {2}, {3}, {4}, {1, 2}, {1, 3}, {1, 4}, {2, 3}, {2, 4}, {3, 4},
      {1, 2, 3}, {1, 2, 4}, {1, 3, 4}, {2, 3, 4}, {1, 2, 3, 4}>>

\* the entries of K in increasing order
SortedSeq(K) == SelectSeq(<<1, 2, 3, 4>>, LAMBDA i : i \in K)

DropAt(s, j) == SubSeq(s, 1, j - 1) \o SubSeq(s, j + 1, Len(s))

\* determinant of the submatrix of M with rows rs and columns cs (two index
\* sequences of one length), by expansion along the first row; DetTerms sums
\* the terms of the columns cs[1..j]
RECURSIVE Det(_, _, _), DetTerms(_, _, _, _)
Det(M, rs, cs) ==
    IF rs = <<>> THEN 1 ELSE DetTerms(M, rs, cs, Len(cs))
DetTerms(M, rs, cs, j) ==
    IF j = 0 THEN 0
    ELSE (IF M[rs[1]][cs[j]] = 0 THEN 0
          ELSE (IF j % 2 = 1 THEN 1 ELSE -1)
               * M[rs[1]][cs[j]] * Det(M, Tail(rs), DropAt(cs, j)))
         + DetTerms(M, rs, cs, j - 1)

(***************************************************************************)
(* Sphere fit (cell 18).                                                   *)
(***************************************************************************)
Procs == {1, 2}

\* physical points the edge detector may hand over (mm, integer here)
Points == {<<1, 0, 0>>, <<-1, 0, 0>>, <<0, 1, 0>>, <<0, 0, 1>>, <<0, 0, 0>>}
SeqPoints == {<<1, 0, 0>>, <<0, 1, 0>>}

ListsOver(P, n) == UNION {[1..k -> P] : k \in 0..n}
PointLists == ListsOver(Points, MaxPoints)
SeqLists == ListsOver(SeqPoints, MaxSeqPoints)

\* variant: np.zeros in the place of np.ones
ZerosMatrix(n) == [i \in 1..n |-> <<0, 0, 0, 0>>]
\* variant: the matrix of an earlier run is kept when it has rows enough
KeptMatrix(n) == IF Len(A) >= n /\ n > 0 THEN A ELSE [i \in 1..n |-> <<1, 1, 1, 1>>]
\* line 264: np.ones((len(physical_points), 4))
OnesMatrix(n) == [i \in 1..n |-> <<1, 1, 1, 1>>]

\* line 265: np.zeros(len(physical_points))
ZerosVector(n) == [i \in 1..n |-> 0]

\* line 268: A[row,0:3] = -2*np.array(point); column 3 keeps its value
RowOfA(old, pt) == <<-2 * pt[1], -2 * pt[2], -2 * pt[3], old[4]>>

\* line 269: -linalg.norm(point)**2
EntryOfb(pt) == -(pt[1] * pt[1] + pt[2] * pt[2] + pt[3] * pt[3])

\* sum over the rows 1..k of A_ of the product of columns i and j
RECURSIVE ColDot(_, _, _, _)
ColDot(A_, i, j, k) ==
    IF k = 0 THEN 0 ELSE A_[k][i] * A_[k][j] + ColDot(A_, i, j, k - 1)

\* sum over the rows 1..k of A_ of column i times b_
RECURSIVE ColDotVec(_, _, _, _)
ColDotVec(A_, b_, i, k) ==
    IF k = 0 THEN 0 ELSE A_[k][i] * b_[k] + ColDotVec(A_, b_, i, k - 1)

\* A^T A and A^T b
AtARow(A_, i) ==
    <<ColDot(A_, i, 1, Len(A_)), ColDot(A_, i, 2, Len(A_)),
      ColDot(A_, i, 3, Len(A_)), ColDot(A_, i, 4, Len(A_))>>
AtA(A_) == <<AtARow(A_, 1), AtARow(A_, 2), AtARow(A_, 3), AtARow(A_, 4)>>
Atb(A_, b_) ==
    <<ColDotVec(A_, b_, 1, Len(A_)), ColDotVec(A_, b_, 2, Len(A_)),
      ColDotVec(A_, b_, 3, Len(A_)), ColDotVec(A_, b_, 4, Len(A_))>>

\* M with column i replaced by v
ReplaceColRow(M, i, v, r) ==
    <<IF i = 1 THEN v[r] ELSE M[r][1], IF i = 2 THEN v[r] ELSE M[r][2],
      IF i = 3 THEN v[r] ELSE M[r][3], IF i = 4 THEN v[r] ELSE M[r][4]>>
ReplaceCol(M, i, v) ==
    <<ReplaceColRow(M, i, v, 1), ReplaceColRow(M, i, v, 2),
      ReplaceColRow(M, i, v, 3), ReplaceColRow(M, i, v, 4)>>

\* sum of the principal minors of order r of M, over IdxSubsets[1..k]
RECURSIVE MinorSumTo(_, _, _)
MinorSumTo(M, r, k) ==
    IF k = 0 THEN 0
    ELSE (IF Cardinality(IdxSubsets[k]) = r
          THEN Det(M, SortedSeq(IdxSubsets[k]), SortedSeq(IdxSubsets[k]))
          ELSE 0)
         + MinorSumTo(M, r, k - 1)
MinorSum(M, r) == MinorSumTo(M, r, Len(IdxSubsets))

\* rank of the positive semidefinite M: the largest order whose minor sum is
\* not zero
RankOf(M) ==
    IF MinorSum(M, 4) # 0 THEN 4
    ELSE IF MinorSum(M, 3) # 0 THEN 3
    ELSE IF MinorSum(M, 2) # 0 THEN 2
    ELSE IF MinorSum(M, 1) # 0 THEN 1
    ELSE 0

\* sum, over the K of IdxSubsets[1..k] of order r that hold i, of the minor K
\* of M with column i replaced by v
RECURSIVE NumeratorTo(_, _, _, _, _)
NumeratorTo(M, v, r, i, k) ==
    IF k = 0 THEN 0
    ELSE (IF Cardinality(IdxSubsets[k]) = r /\ i \in IdxSubsets[k]
          THEN Det(ReplaceCol(M, i, v), SortedSeq(IdxSubsets[k]), SortedSeq(IdxSubsets[k]))
          ELSE 0)
         + NumeratorTo(M, v, r, i, k - 1)

\* the limit for t -> 0 of the solution of (M + t I) u = v, for M of rank r
PinvSolution(M, v, r) ==
    RatVec(<<NumeratorTo(M, v, r, 1, Len(IdxSubsets)),
             NumeratorTo(M, v, r, 2, Len(IdxSubsets)),
             NumeratorTo(M, v, r, 3, Len(IdxSubsets)),
             NumeratorTo(M, v, r, 4, Len(IdxSubsets))>>,
           MinorSum(M, r))

\* variant of lstsq below: only the first four equations are solved
lstsqHead(A_, b_) ==
    LET n == IF Len(A_) > 4 THEN 4 ELSE Len(A_)
        M == AtA(SubSeq(A_, 1, n))
        v == Atb(SubSeq(A_, 1, n), SubSeq(b_, 1, n))
        r == RankOf(M)
    IN  PinvSolution(M, v, r)

\* line 271: linalg.lstsq(A, b)[0], the least-squares solution of minimum
\* norm, pinv(A) b.  It is the limit for t -> 0 of the solution of
\* (A^T A + t I) u = A^T b; by Cramer's rule both determinants are polynomials
\* in t, and the limit is the quotient of their coefficients of lowest order.
\* With A of full column rank this is Cramer's rule for A^T A u = A^T b; with
\* no rows it is the zero vector.
lstsq(A_, b_) ==
    LET M == AtA(A_)
        v == Atb(A_, b_)
        r == RankOf(M)
    IN  PinvSolution(M, v, r)

\* variant: res[3] added
RadicandPlus(u) ==
    Rat(u.num[1] * u.num[1] + u.num[2] * u.num[2] + u.num[3] * u.num[3]
          + u.num[4] * u.den,
        u.den * u.den)

\* line 273: linalg.norm(res[0:3])**2 - res[3]
Radicand(u) ==
    Rat(u.num[1] * u.num[1] + u.num[2] * u.num[2] + u.num[3] * u.num[3]
          - u.num[4] * u.den,
        u.den * u.den)

\* the largest h with (h/100)^2 <= q, for a rational q >= 0
FloorSqrt100(q) ==
    CHOOSE h \in 0..(100 * (q.num \div q.den + 1)) :
        /\ h * h * q.den <= 10000 * q.num
        /\ (h + 1) * (h + 1) * q.den > 10000 * q.num

\* line 273: "{0:.2f}".format(np.sqrt(q)): np.sqrt of a negative number is
\* nan; otherwise the root rounded to the nearest hundredth, a tie to even
Format2f(q) ==
    IF q.num < 0 THEN [nan |-> TRUE, hundredths |-> 0]
    ELSE LET f == FloorSqrt100(q)
             lhs == (2 * f + 1) * (2 * f + 1) * q.den
             rhs == 40000 * q.num
         IN  [nan |-> FALSE,
              hundredths |-> IF lhs < rhs \/ (lhs = rhs /\ f % 2 = 1) THEN f + 1 ELSE f]

\* what an invocation has printed or raised
NoOutput == [status |-> "none", nan |-> FALSE, hundredths |-> 0]
Raised(e) == [status |-> e, nan |-> FALSE, hundredths |-> 0]
Printed(t) == [status |-> "ok", nan |-> t.nan, hundredths |-> t.hundredths]

\* a fresh kernel: cell 18 has never run, its names are unassigned (A and b
\* are shown as empty; nothing reads them before they are assigned)
FreshKernel ==
    /\ A = <<>> /\ b = <<>>
    /\ row = Unset /\ point = Unset /\ res = Unset
    /\ memo = {}

\* lines 257-261 build physical_points; the fit starts at line 264
InitFit(lists1, lists2, running) ==
    /\ pc = [p \in Procs |-> IF p \in running THEN "allocA" ELSE "off"]
    /\ \E pl1 \in lists1, pl2 \in lists2 :
         physical_points = [p \in Procs |-> IF p = 1 THEN pl1 ELSE pl2]
    /\ it = [p \in Procs |-> 0]
    /\ out = [p \in Procs |-> NoOutput]
    /\ FreshKernel

IdleFit == InitFit({<<>>}, {<<>>}, {})

\* line 264
AllocA(p) ==
    /\ pc[p] = "allocA"
    /\ A' = OnesMatrix(Len(physical_points[p]))
    /\ pc' = [pc EXCEPT ![p] = "allocb"]
    /\ UNCHANGED <<physical_points, it, out, b, row, point, res, memo>>
    /\ UNCHANGED roiVars

\* line 265
Allocb(p) ==
    /\ pc[p] = "allocb"
    /\ b' = ZerosVector(Len(physical_points[p]))
    /\ pc' = [pc EXCEPT ![p] = "for"]
    /\ UNCHANGED <<physical_points, it, out, A, row, point, res, memo>>
    /\ UNCHANGED roiVars

\* line 267: for row, point in enumerate(physical_points)
ForNext(p) ==
    /\ pc[p] = "for"
    /\ IF it[p] < Len(physical_points[p])
       THEN /\ row' = it[p]
            /\ point' = physical_points[p][it[p] + 1]
            /\ it' = [it EXCEPT ![p] = it[p] + 1]
            /\ pc' = [pc EXCEPT ![p] = "setA"]
       ELSE /\ pc' = [pc EXCEPT ![p] = "solve"]
            /\ UNCHANGED <<row, point, it>>
    /\ UNCHANGED <<physical_points, out, A, b, res, memo>>
    /\ UNCHANGED roiVars

\* line 268; an index past the last row of A raises IndexError
SetARow(p) ==
    /\ pc[p] = "setA"
    /\ IF row < Len(A)
       THEN /\ A' = [A EXCEPT ![row + 1] = RowOfA(A[row + 1], point)]
            /\ pc' = [pc EXCEPT ![p] = "setb"]
            /\ out' = out
       ELSE /\ out' = [out EXCEPT ![p] = Raised("IndexError")]
            /\ pc' = [pc EXCEPT ![p] = "done"]
            /\ A' = A
    /\ UNCHANGED <<physical_points, it, b, row, point, res, memo>>
    /\ UNCHANGED roiVars

\* line 269
SetbRow(p) ==
    /\ pc[p] = "setb"
    /\ IF row < Len(b)
       THEN /\ b' = [b EXCEPT ![row + 1] = EntryOfb(point)]
            /\ pc' = [pc EXCEPT ![p] = "for"]
            /\ out' = out
       ELSE /\ out' = [out EXCEPT ![p] = Raised("IndexError")]
            /\ pc' = [pc EXCEPT ![p] = "done"]
            /\ b' = b
    /\ UNCHANGED <<physical_points, it, A, row, point, res, memo>>
    /\ UNCHANGED roiVars

\* line 271; lstsq raises ValueError when A and b differ in their row count
Solve(p) ==
    /\ pc[p] = "solve"
    /\ IF Len(A) = Len(b)
       THEN /\ res' = lstsq(A, b)
            /\ pc' = [pc EXCEPT ![p] = "radius"]
            /\ out' = out
       ELSE /\ out' = [out EXCEPT ![p] = Raised("ValueError")]
            /\ pc' = [pc EXCEPT ![p] = "done"]
            /\ res' = res
    /\ UNCHANGED <<physical_points, it, A, b, row, point, memo>>
    /\ UNCHANGED roiVars

\* line 273
Radius(p) ==
    /\ pc[p] = "radius"
    /\ out' = [out EXCEPT ![p] = Printed(Format2f(Radicand(res)))]
    /\ pc' = [pc EXCEPT ![p] = "done"]
    /\ UNCHANGED <<physical_points, it, A, b, row, point, res, memo>>
    /\ UNCHANGED roiVars

\* the cell is run again on another point list (lines 257-261); the history
\* variable may keep the call that just ended
Rerun(p) ==
    /\ pc[p] = "done"
    /\ \E pl \in SeqLists :
         physical_points' = [physical_points EXCEPT ![p] = pl]
    /\ memo' \in {memo, {[input |-> physical_points[p], res |-> res, out |-> out[p]]}}
    /\ pc' = [pc EXCEPT ![p] = "allocA"]
    /\ it' = [it EXCEPT ![p] = 0]
    /\ out' = [out EXCEPT ![p] = NoOutput]
    /\ UNCHANGED <<A, b, row, point, res>>
    /\ UNCHANGED roiVars

Step(p) ==
    \/ AllocA(p)
    \/ Allocb(p)
    \/ ForNext(p)
    \/ SetARow(p)
    \/ SetbRow(p)
    \/ Solve(p)
    \/ Radius(p)

(***************************************************************************)
(* Specifications.                                                         *)
(***************************************************************************)
\* one fit of any point list, in a fresh kernel
Init == IdleROI /\ InitFit(PointLists, {<<>>}, {1})
Next == Step(1)
Spec == Init /\ [][Next]_vars

\* the cell run again and again in one kernel
InitSeq == IdleROI /\ InitFit(SeqLists, {<<>>}, {1})
NextSeq == Step(1) \/ Rerun(1)
SpecSeq == InitSeq /\ [][NextSeq]_vars

\* two invocations of the cell's statements interleaved in one kernel
InitConc == IdleROI /\ InitFit(SeqLists, SeqLists, Procs)
NextConc == \E p \in Procs : Step(p)
SpecConc == InitConc /\ [][NextConc]_vars

\* the ROI cells, for any ROI inside the image
InitCells == InitROI /\ IdleFit
SpecROI == InitCells /\ [][NextROI]_vars

(***************************************************************************)
(* Notions the properties are stated with, defined apart from the solve.   *)
(***************************************************************************)
Norm2(pt) == pt[1] * pt[1] + pt[2] * pt[2] + pt[3] * pt[3]

\* the 4 x 4 determinant of the rows i, j, k, l of the matrix rows
Det4(rows, i, j, k, l) ==
    Det(<<rows[i], rows[j], rows[k], rows[l]>>, <<1, 2, 3, 4>>, <<1, 2, 3, 4>>)

\* some four rows are linearly independent
FullColumnRank(rows) ==
    \E i, j, k, l \in 1..Len(rows) :
        i < j /\ j < k /\ k < l /\ Det4(rows, i, j, k, l) # 0

\* some four points span a volume (are not in one plane)
Homogeneous(pl) == [i \in 1..Len(pl) |-> <<pl[i][1], pl[i][2], pl[i][3], 1>>]
NonCoplanar(pl) == FullColumnRank(Homogeneous(pl))

\* A_[k] . u - b_[k], times the denominator of u
ResidualEntry(A_, b_, nums, den, k) ==
    A_[k][1] * nums[1] + A_[k][2] * nums[2] + A_[k][3] * nums[3] + A_[k][4] * nums[4]
      - den * b_[k]

\* |A_ u - b_|^2 over the rows 1..k, times the squared denominator of u
RECURSIVE Residual2(_, _, _, _, _)
Residual2(A_, b_, nums, den, k) ==
    IF k = 0 THEN 0
    ELSE ResidualEntry(A_, b_, nums, den, k) * ResidualEntry(A_, b_, nums, den, k)
         + Residual2(A_, b_, nums, den, k - 1)

\* A_^T (A_ u - b_) = 0
NormalEquations(A_, b_, u) ==
    \A i \in Idx :
        AtA(A_)[i][1] * u.num[1] + AtA(A_)[i][2] * u.num[2]
          + AtA(A_)[i][3] * u.num[3] + AtA(A_)[i][4] * u.num[4]
        = u.den * Atb(A_, b_)[i]

\* displacements of a solution vector, in units of 1
Displacements == {d \in [Idx -> -1..1] : \E i \in Idx : d[i] # 0}

\* centres c/2 of candidate spheres, c an integer triple
HalfCentres == (-2..2) \X (-2..2) \X (-2..2)

\* four times the squared distance of pt to the centre c/2
Dist4(pt, c) ==
    (2 * pt[1] - c[1]) * (2 * pt[1] - c[1])
      + (2 * pt[2] - c[2]) * (2 * pt[2] - c[2])
      + (2 * pt[3] - c[3]) * (2 * pt[3] - c[3])

\* every point of pl is at one distance of the centre c/2
OnSphere(pl, c) == \A i \in 1..Len(pl) : Dist4(pl[i], c) = Dist4(pl[1], c)

\* h hundredths is 100 * sqrt(d4 / 4) rounded to the nearest hundredth
IsRadius(h, d4) ==
    /\ h >= 0
    /\ (h > 0 => (2 * h - 1) * (2 * h - 1) <= 10000 * d4)
    /\ 10000 * d4 <= (2 * h + 1) * (2 * h + 1)

UnitTetrahedron == <<<<1, 0, 0>>, <<-1, 0, 0>>, <<0, 1, 0>>, <<0, 0, 1>>>>

\* the fit of pl run alone in a fresh kernel
FitAlone(pl) ==
    LET A_ == [i \in 1..Len(pl) |-> RowOfA(<<1, 1, 1, 1>>, pl[i])]
        b_ == [i \in 1..Len(pl) |-> EntryOfb(pl[i])]
    IN  Printed(Format2f(Radicand(lstsq(A_, b_))))

InBox(v) ==
    /\ roi[1][1] <= v[1] /\ v[1] <= roi[1][2]
    /\ roi[2][1] <= v[2] /\ v[2] <= roi[2][2]
    /\ roi[3][1] <= v[3] /\ v[3] <= roi[3][2]

(***************************************************************************)
(* Properties.                                                             *)
(***************************************************************************)

\* C1: once the fill loop has ended, A and b have one row per input point,
\* row i of A is (-2 x_i, -2 y_i, -2 z_i, 1) and entry i of b is
\* -(x_i^2 + y_i^2 + z_i^2): no row is left at its initial value and the
\* fourth column is 1 everywhere.
SystemBuilt ==
    pc[1] \in {"solve", "radius", "done"} =>
        /\ Len(A) = Len(physical_points[1])
        /\ Len(b) = Len(physical_points[1])
        /\ \A i \in 1..Len(physical_points[1]) :
             /\ A[i] = <<-2 * physical_points[1][i][1], -2 * physical_points[1][i][2],
                         -2 * physical_points[1][i][3], 1>>
             /\ b[i] = -Norm2(physical_points[1][i])

SystemBuiltWitness ==
    /\ pc[1] = "solve"
    /\ Len(physical_points[1]) >= 4
    /\ \E i, j \in 1..Len(physical_points[1]) :
         Norm2(physical_points[1][i]) # Norm2(physical_points[1][j])

\* C2: for at least 4 points, not in one plane, that lie exactly on the sphere
\* of centre C and radius R, the solve returns u = (C, |C|^2 - R^2), every
\* equation holds with zero residual, and the radius printed is R (to the
\* two decimals of the print); the points (1,0,0), (-1,0,0), (0,1,0), (0,0,1)
\* give centre (0,0,0) and radius 1.00.
ExactSphereRecovered ==
    (pc[1] = "done" /\ Len(physical_points[1]) >= 4 /\ NonCoplanar(physical_points[1])) =>
        /\ \A c \in HalfCentres :
             OnSphere(physical_points[1], c) =>
               /\ res = RatVec(<<2 * c[1], 2 * c[2], 2 * c[3],
                                 Norm2(c) - Dist4(physical_points[1][1], c)>>, 4)
               /\ Residual2(A, b, res.num, res.den, Len(A)) = 0
               /\ out[1].status = "ok" /\ ~out[1].nan
               /\ IsRadius(out[1].hundredths, Dist4(physical_points[1][1], c))
        /\ physical_points[1] = UnitTetrahedron =>
               /\ res = [num |-> <<0, 0, 0, -1>>, den |-> 1]
               /\ out[1] = [status |-> "ok", nan |-> FALSE, hundredths |-> 100]

ExactSphereWitness ==
    /\ pc[1] = "done"
    /\ Len(physical_points[1]) = 5
    /\ NonCoplanar(physical_points[1])
    /\ OnSphere(physical_points[1], <<1, 1, 1>>)
    /\ out[1].hundredths = 87

\* C3: a fit of fewer than 4 points ends with InsufficientDataError.
InsufficientDataRejected ==
    (pc[1] = "done" /\ Len(physical_points[1]) < 4) =>
        out[1].status = "InsufficientDataError"

\* C4: a fit of 4 or more points that are all in one plane (all identical
\* included), which makes A rank-deficient, ends with SingularSystemError.
SingularSystemRejected ==
    (pc[1] = "done" /\ Len(physical_points[1]) >= 4 /\ ~NonCoplanar(physical_points[1])) =>
        out[1].status = "SingularSystemError"

\* Auxiliary fact about line 273: in exact arithmetic the radicand is the
\* mean squared distance of the points to the fitted centre, so it is never
\* negative and the square root never yields nan.
RadicandNeverNegative ==
    pc[1] \in {"radius", "done"} => (Radicand(res).num >= 0 /\ ~out[1].nan)

\* C6: for at least 4 points and A of full column rank, the solve returns
\* the one minimizer of |A u - b|^2: u satisfies A^T A u = A^T b and every
\* displaced vector has a strictly larger residual.
LeastSquaresMinimizer ==
    (pc[1] = "radius" /\ Len(physical_points[1]) >= 4 /\ FullColumnRank(A)) =>
        /\ NormalEquations(A, b, res)
        /\ \A d \in Displacements :
             Residual2(A, b, [i \in Idx |-> res.num[i] + res.den * d[i]], res.den, Len(A))
               > Residual2(A, b, res.num, res.den, Len(A))

LeastSquaresWitness ==
    /\ pc[1] = "radius"
    /\ FullColumnRank(A)
    /\ Residual2(A, b, res.num, res.den, Len(A)) > 0

\* C7: a call that ends on the input of an earlier call ends with that
\* call's output and solution, whatever ran in between, and no step of a
\* call changes its point list.
PureFit ==
    [][/\ pc'[1] = "done" =>
            \A m \in memo' :
                m.input = physical_points'[1] =>
                    /\ m.out = out'[1]
                    /\ (out'[1].status = "ok" => m.res = res')
       /\ pc[1] # "done" => physical_points' = physical_points]_vars

PureFitWitness ==
    /\ pc[1] = "done"
    /\ \E m \in memo : m.input = physical_points[1] /\ Len(m.input) = MaxSeqPoints
    /\ out[1].status = "ok"

\* C8: each of two invocations interleaved on their own point lists ends
\* with the output it has when run alone.
ConcurrentFitsIndependent ==
    \A p \in Procs :
        pc[p] = "done" => out[p] = FitAlone(physical_points[p])

\* C9: the voxels of the histogram slice, the voxels cropped into
\* sub_image and the voxels set to mask_value in the mask are one set.
SameVoxelSets ==
    cell = "end" =>
        /\ roi_intensity_values = sub_image
        /\ sub_image = {v \in Voxels : mask[v] = mask_value}

\* C10: after the mask loop, a voxel is mask_value exactly when it is inside
\* the ROI, both bounds inclusive, and 0 otherwise; with min > max on some
\* axis the assignment of line 109 is never reached and the mask stays 0.
MaskIsROIBox ==
    /\ cell \in {"cell9", "cell16", "end"} =>
         \A v \in Voxels : mask[v] = IF InBox(v) THEN mask_value ELSE 0
    /\ cell = "body" =>
         roi[1][1] <= roi[1][2] /\ roi[2][1] <= roi[2][2] /\ roi[3][1] <= roi[3][2]

MaskIsROIBoxWitness ==
    /\ cell = "cell9"
    /\ roi[1][1] < roi[1][2]
    /\ \E v \in Voxels : mask[v] = mask_value
    /\ \E v \in Voxels : mask[v] = 0

====
